---- MODULE Spec2Model ----
(***************************************************************************)
(* Model of frontend/app.js: the positions grid, its change-detecting poll *)
(* loop, the cell selection store with its panel, and the hedge            *)
(* application protocol.  One action per event handler and per             *)
(* continuation of an async function after an await.                       *)
(***************************************************************************)
EXTENDS Bags, FiniteSets, Integers, Sequences, TLC

VARIABLES
  product,        \* value of #product-select
  prevDataJSON,   \* window._prevDataJSON
  container,      \* what #positions-grid shows
  scrollLeft,     \* scrollLeft of the displayed .grid-table (0 when none)
  cells,          \* the .total-cell elements attached to the document
  selectedCells,  \* window._selectedCells
  panel,          \* content of #selection-panel
  isLoading,      \* _isLoading
  timerOn,        \* setInterval of pollLoop has been called
  inflight,       \* bag of loadPositions calls suspended at their fetch
  ops,            \* the applyHedgeFromSelection calls
  notice,         \* the alert or console line being shown
  lastFetch,      \* history: what the last finished loadPositions call did
  toggles         \* history: the modified clicks since the store was last empty

pageVars == <<product, prevDataJSON, container, scrollLeft>>
selVars == <<cells, selectedCells, panel>>
pollVars == <<isLoading, timerOn, inflight>>
hedgeVars == <<ops, notice>>
vars == <<product, prevDataJSON, container, scrollLeft, cells, selectedCells,
          panel, isLoading, timerOn, inflight, ops, notice, lastFetch,
          toggles>>

----------------------------------------------------------------------------
(* Bounds *)

MaxInFlight == 2      \* loadPositions calls a product change may overlap with
MaxMissing == 2       \* names in the missing list of a missing_strategies reply

----------------------------------------------------------------------------
(* Inputs *)

Products == {"CL", "NG"}

\* Bodies of GET /api/positions/{product}: a grid with a Total row, the same
\* grid with other lots, an empty snapshot, and a body without the two fields.
RowsA == << [name |-> "Fly", lots |-> <<1, 0>>],
            [name |-> "Total", lots |-> <<1, 0>>] >>
RowsB == << [name |-> "Fly", lots |-> <<1, -3>>],
            [name |-> "Total", lots |-> <<1, -3>>] >>
DataA == [contracts |-> <<"F", "G">>, rows |-> RowsA]
DataB == [contracts |-> <<"F", "G">>, rows |-> RowsB]
DataEmpty == [contracts |-> <<>>, rows |-> <<>>]
DataBare == [status |-> "ok"]
Bodies == {DataA, DataB, DataEmpty, DataBare}

\* a grid with three contracts
RowsWide == << [name |-> "Fly", lots |-> <<1, 0, -3>>],
               [name |-> "Total", lots |-> <<1, 0, -3>>] >>
DataWide == [contracts |-> <<"F", "G", "H">>, rows |-> RowsWide]

ScrollOffsets == {0, 120}

\* what the operator may type into a panel input (type=number)
EditTexts == {"", "-3", "07"}

\* what the operator may answer to window.prompt: cancel (null), a text that
\* does not evaluate to an array, a text that does
PromptAnswers == { [cancelled |-> TRUE, text |-> ""],
                   [cancelled |-> FALSE, text |-> "abc"],
                   [cancelled |-> FALSE, text |-> "[1,-1]"] }

\* replies of POST /api/implement_hedge and POST /api/create_strategy:
\* status "transport" is a rejected fetch or a body that is not JSON
StrategyName(n) == "S" \o ToString(n)
MissingLists == { [j \in 1..n |-> StrategyName(j)] : n \in 0..MaxMissing }
Reply(status, error, missing) ==
  [status |-> status, error |-> error, missing |-> missing,
   pattern |-> IF error = "missing_hedged_pattern" THEN <<1, -1>> ELSE <<>>]
HedgeReplies ==
  { Reply("ok", "", <<>>), Reply("transport", "Failed to fetch", <<>>),
    Reply("error", "", <<>>), Reply("error", "rejected", <<>>),
    Reply("error", "missing_hedged_pattern", <<>>) }
  \cup { Reply("error", "missing_strategies", m) : m \in MissingLists }
CreateReplies ==
  { Reply("ok", "", <<>>), Reply("transport", "Failed to fetch", <<>>),
    Reply("error", "", <<>>), Reply("error", "rejected", <<>>) }

----------------------------------------------------------------------------
(* applyHedgeFromSelection: the state of one call *)

\* the calls that may be suspended at the same time
OpIds == {1, 2}

NoPayload == [product |-> "", lis_structure_names |-> <<>>,
              lis_starting_contracts |-> <<>>, lis_num_lots |-> <<>>]
NoRequest == [url |-> "", body |-> NoPayload]

\* pc: the await the call is suspended at ("alert": in its catch block with
\* the alert open; "logged": returned after the console line); payload: its
\* const payload; request: the HTTP request it waits for; kind, missing, k:
\* the recovery branch, the names to create and the index of the name the
\* loop is at.
\* History of the call: sends and first (implement_hedge requests sent and
\* the body of the first), requested and creates (names a create_strategy
\* request was sent for, and how many were answered ok), cancelled (the
\* operator cancelled a prompt), selAtSubmit (the store when the call
\* started), touched (the operator or another call changed the store since
\* the call started or, later, since it succeeded).
Idle == [pc |-> "idle", payload |-> NoPayload, request |-> NoRequest,
         kind |-> "", missing |-> <<>>, k |-> 0,
         sends |-> 0, first |-> NoPayload, requested |-> <<>>, creates |-> 0,
         cancelled |-> FALSE, selAtSubmit |-> <<>>, touched |-> FALSE]

Suspended(op) == op.pc \in {"submit", "create", "retry", "refresh"}

Touch(os) == [i \in DOMAIN os |->
                IF Suspended(os[i]) THEN [os[i] EXCEPT !.touched = TRUE] ELSE os[i]]

----------------------------------------------------------------------------
(* Selection store and selection panel *)

\* String(num) of buildGrid, '' for zero
CellText(num) == IF num = 0 THEN "" ELSE ToString(num)

NoPanel == [items |-> <<>>, apply |-> ""]

\* `${structure}||${contract}`
KeyOf(structure, contract) == structure \o "||" \o contract

\* Number(text) || 0 for the texts an input or a cell can hold
NumberOf(text) ==
  CASE text = "" -> 0
    [] text = "1" -> 1
    [] text = "7" -> 7
    [] text = "07" -> 7
    [] text = "-3" -> -3
    [] OTHER -> 0

\* parseInt(String(value).trim(), 10) || 0
ParseInt(text) ==
  CASE text = "" -> 0
    [] text = "1" -> 1
    [] text = "7" -> 7
    [] text = "07" -> 7
    [] text = "-3" -> -3
    [] OTHER -> 0

\* classList.remove('selected') on the elements of the given entries; an
\* element that is no longer in the document has no displayed cell
Unmark(cs, entries) ==
  [id \in DOMAIN cs |->
     IF \E i \in 1..Len(entries) : entries[i].connected /\ entries[i].element = id
     THEN [cs[id] EXCEPT !.selected = FALSE]
     ELSE cs[id]]

\* renderSelectionPanel: one item per entry and the apply button, whose
\* label is read from the product selector now
PanelItem(s) == [label |-> s.structure \o " - " \o s.contract, input |-> s.value]

RenderSelectionPanel(sel) ==
  IF Len(sel) = 0 THEN NoPanel
  ELSE [items |-> [i \in 1..Len(sel) |-> PanelItem(sel[i])],
        apply |-> "Apply Hedge (" \o product \o ")"]

\* History of modified clicks: odd is the set of cells clicked an odd number
\* of times and latest lists them by the time of their latest selection.  It
\* is kept while the store has only been changed by modified clicks since it
\* was last empty (valid).
FreshToggles == [valid |-> TRUE, odd |-> {}, latest |-> <<>>]
LostToggles == [valid |-> FALSE, odd |-> {}, latest |-> <<>>]

Without(seq, x) == SelectSeq(seq, LAMBDA y : y # x)

Toggled(t, id) ==
  IF ~t.valid THEN t
  ELSE IF id \in t.odd
  THEN [t EXCEPT !.odd = @ \ {id}, !.latest = Without(@, id)]
  ELSE [t EXCEPT !.odd = @ \cup {id}, !.latest = Append(Without(@, id), id)]

\* after a change of the store that is not a modified click
Restart(sel) == IF Len(sel) = 0 THEN FreshToggles ELSE LostToggles

\* the three pieces of state the selection functions work on
Dom(sel, cs, pn) == [sel |-> sel, cells |-> cs, panel |-> pn]

\* a clearSelection that empties the store but leaves the cells marked
ClearSelectionStoreOnly(d) == Dom(<<>>, d.cells, NoPanel)

ClearSelection(d) ==
  Dom(<<>>, Unmark(d.cells, d.sel), NoPanel)

\* a search that never finds the key
FindIndexMisses(sel, key) == 0

FindIndex(sel, key) ==
  IF \E i \in 1..Len(sel) : sel[i].key = key
  THEN CHOOSE i \in 1..Len(sel) :
         /\ sel[i].key = key
         /\ \A j \in 1..(i - 1) : sel[j].key # key
  ELSE 0

\* splice(idx, 1)
RemoveAt(sel, idx) ==
  [i \in 1..(Len(sel) - 1) |-> IF i < idx THEN sel[i] ELSE sel[i + 1]]

ToggleCellSelection(d, id) ==
  LET key == KeyOf(id[1], id[2])
      idx == FindIndex(d.sel, key)
      sel2 == IF idx > 0
              THEN RemoveAt(d.sel, idx)
              ELSE Append(d.sel, [key |-> key, structure |-> id[1],
                                  contract |-> id[2], element |-> id,
                                  connected |-> TRUE,
                                  value |-> d.cells[id].text])
      cs2 == IF idx > 0
             THEN Unmark(d.cells, <<d.sel[idx]>>)
             ELSE [d.cells EXCEPT ![id].selected = TRUE]
  IN Dom(sel2, cs2, RenderSelectionPanel(sel2))

\* a listener that toggles without looking at the modifier key
ClickHandlerNeverClears(d, id, ctrlKey) == ToggleCellSelection(d, id)

\* the click listener attachCellSelectionHandlers installs
ClickHandler(d, id, ctrlKey) ==
  ToggleCellSelection(IF ctrlKey THEN d ELSE ClearSelection(d), id)

\* a click on a displayed cell; a cell without listener ignores it
CellClick ==
  /\ notice = ""
  /\ \E id \in DOMAIN cells, ctrlKey \in BOOLEAN :
       IF cells[id].handler
          THEN LET d == ClickHandler(Dom(selectedCells, cells, panel), id, ctrlKey)
               IN /\ selectedCells' = d.sel
                  /\ cells' = d.cells
                  /\ panel' = d.panel
                  /\ ops' = Touch(ops)
                  /\ toggles' = IF ctrlKey THEN Toggled(toggles, id)
                                           ELSE Restart(d.sel)
          ELSE UNCHANGED <<selVars, ops, toggles>>
  /\ UNCHANGED <<pageVars, pollVars, notice, lastFetch>>

\* input.oninput of a panel item
InputEdit ==
  /\ notice = ""
  /\ \E i \in 1..Len(selectedCells), text \in EditTexts :
       LET s == selectedCells[i]
           valNum == NumberOf(text)
       IN /\ text # s.value
          /\ selectedCells' = [selectedCells EXCEPT ![i].value = text]
          /\ panel' = [panel EXCEPT !.items[i].input = text]
          /\ cells' = IF s.connected
                      THEN [cells EXCEPT ![s.element].text = CellText(valNum)]
                      ELSE cells
  /\ ops' = Touch(ops)
  /\ UNCHANGED <<pageVars, pollVars, notice, lastFetch, toggles>>

\* filter(x => x.key !== key)
FilterOutKey(sel, key) == SelectSeq(sel, LAMBDA x : x.key # key)

\* removeBtn.onclick of a panel item
RemoveClick ==
  /\ notice = ""
  /\ \E i \in 1..Len(selectedCells) :
       LET s == selectedCells[i]
           sel2 == FilterOutKey(selectedCells, s.key)
       IN /\ cells' = Unmark(cells, <<s>>)
          /\ selectedCells' = sel2
          /\ panel' = RenderSelectionPanel(sel2)
          /\ toggles' = Restart(sel2)
  /\ ops' = Touch(ops)
  /\ UNCHANGED <<pageVars, pollVars, notice, lastFetch>>

----------------------------------------------------------------------------
(* loadPositions *)

\* data.contracts || []   and   data.rows || []
ContractsOf(data) == IF "contracts" \in DOMAIN data THEN data.contracts ELSE <<>>
RowsOf(data) == IF "rows" \in DOMAIN data THEN data.rows ELSE <<>>

RECURSIVE JoinStr(_)
JoinStr(s) ==
  IF Len(s) = 0 THEN ""
  ELSE IF Len(s) = 1 THEN s[1]
  ELSE s[1] \o "," \o JoinStr(Tail(s))

NumStrs(lots) == [i \in 1..Len(lots) |-> ToString(lots[i])]
RowStr(row) == "{name:" \o row.name \o ",lots:[" \o JoinStr(NumStrs(row.lots)) \o "]}"
RowStrs(rows) == [i \in 1..Len(rows) |-> RowStr(rows[i])]

\* JSON.stringify({ contracts, rows })
Stringify(contracts, rows) ==
  "{contracts:[" \o JoinStr(contracts) \o "],rows:[" \o JoinStr(RowStrs(rows)) \o "]}"

\* the two values of window._prevDataJSON that are not a JSON text
Undefined == "undefined"
Null == "null"

NoCells == [id \in {} |-> FALSE]

\* a listener on every cell, the Total row included
HasHandlerAlways(structure) == TRUE

\* attachCellSelectionHandlers gives every cell a click listener except the
\* cells of the row named "Total"
HasHandler(structure) == structure # "Total"

\* the cells buildGrid creates, as attachCellSelectionHandlers leaves them
GridCells(contracts, rows) ==
  LET ids == { p \in (1..Len(rows)) \X (1..Len(contracts)) :
                 p[2] <= Len(rows[p[1]].lots) }
      idOf(p) == <<rows[p[1]].name, contracts[p[2]]>>
  IN [id \in { idOf(p) : p \in ids } |->
        LET p == CHOOSE q \in ids : idOf(q) = id
        IN [text |-> CellText(rows[p[1]].lots[p[2]]),
            selected |-> FALSE,
            handler |-> HasHandler(id[1])]]

\* elements of the old grid are detached when the container is overwritten
Detach(sel) == [i \in 1..Len(sel) |-> [sel[i] EXCEPT !.connected = FALSE]]

Fetch(origin, op, prod) == [origin |-> origin, op |-> op, product |-> prod]
AddFetch(f) == inflight (+) SetToBag({f})
DelFetch(f) == inflight (-) SetToBag({f})

Fetched(f, json, did) == [origin |-> f.origin, json |-> json, did |-> did]

\* an interval callback without its finally block
ContinueHoldsGuard(f) ==
  /\ isLoading' = isLoading
  /\ timerOn' = IF f.origin = "init" THEN TRUE ELSE timerOn
  /\ IF f.origin = "hedge"
     THEN /\ ops' = [ops EXCEPT ![f.op].pc = "logged"]
          /\ notice' = "Hedge applied"
     ELSE UNCHANGED <<ops, notice>>

\* what the caller of loadPositions does when the call returns
Continue(f) ==
  /\ isLoading' = IF f.origin = "tick" THEN FALSE ELSE isLoading
  /\ timerOn' = IF f.origin = "init" THEN TRUE ELSE timerOn
  /\ IF f.origin = "hedge"
     THEN /\ ops' = [ops EXCEPT ![f.op].pc = "logged"]
          /\ notice' = "Hedge applied"
     ELSE UNCHANGED <<ops, notice>>

\* the catch block: fetch rejected, response not ok, or body not JSON
LoadFailed(f) ==
  /\ container' = [kind |-> "error", product |-> f.product, json |-> ""]
  /\ cells' = NoCells
  /\ scrollLeft' = 0
  /\ selectedCells' = Detach(selectedCells)
  /\ lastFetch' = Fetched(f, "", "error")
  /\ UNCHANGED <<prevDataJSON, panel, toggles>>

\* a comparison that never finds the snapshot unchanged
FingerprintNeverMatches(prev, dataJSON) == FALSE

\* window._prevDataJSON === dataJSON
FingerprintMatches(prev, dataJSON) == prev = dataJSON

\* a loadPositions that clears the fingerprint when it renders the placeholder
LoadSucceededClearing(f, data) ==
  LET contracts == ContractsOf(data)
      rows == RowsOf(data)
      dataJSON == Stringify(contracts, rows)
  IN IF FingerprintMatches(prevDataJSON, dataJSON)
     THEN /\ lastFetch' = Fetched(f, dataJSON, "skipped")
          /\ UNCHANGED <<prevDataJSON, container, scrollLeft, selVars, toggles>>
     ELSE IF Len(contracts) = 0 /\ Len(rows) = 0
     THEN /\ container' = [kind |-> "nopositions", product |-> f.product, json |-> ""]
          /\ cells' = NoCells
          /\ scrollLeft' = 0
          /\ selectedCells' = Detach(selectedCells)
          /\ prevDataJSON' = Null
          /\ lastFetch' = Fetched(f, dataJSON, "placeholder")
          /\ UNCHANGED <<panel, toggles>>
     ELSE /\ container' = [kind |-> "grid", product |-> f.product, json |-> dataJSON]
          /\ cells' = GridCells(contracts, rows)
          /\ scrollLeft' = scrollLeft
          /\ selectedCells' = <<>>
          /\ panel' = NoPanel
          /\ toggles' = FreshToggles
          /\ prevDataJSON' = dataJSON
          /\ lastFetch' = Fetched(f, dataJSON, "built")

\* the try block of loadPositions after the body was decoded
LoadSucceeded(f, data) ==
  LET contracts == ContractsOf(data)
      rows == RowsOf(data)
      dataJSON == Stringify(contracts, rows)
  IN IF FingerprintMatches(prevDataJSON, dataJSON)
     THEN /\ lastFetch' = Fetched(f, dataJSON, "skipped")
          /\ UNCHANGED <<prevDataJSON, container, scrollLeft, selVars, toggles>>
     ELSE IF Len(contracts) = 0 /\ Len(rows) = 0
     THEN /\ container' = [kind |-> "nopositions", product |-> f.product, json |-> ""]
          /\ cells' = NoCells
          /\ scrollLeft' = 0
          /\ selectedCells' = Detach(selectedCells)
          /\ prevDataJSON' = dataJSON
          /\ lastFetch' = Fetched(f, dataJSON, "placeholder")
          /\ UNCHANGED <<panel, toggles>>
     ELSE \* buildGrid(contracts, rows, oldScrollLeft)
          /\ container' = [kind |-> "grid", product |-> f.product, json |-> dataJSON]
          /\ cells' = GridCells(contracts, rows)
          /\ scrollLeft' = scrollLeft
          /\ selectedCells' = <<>>
          /\ panel' = NoPanel
          /\ toggles' = FreshToggles
          /\ prevDataJSON' = dataJSON
          /\ lastFetch' = Fetched(f, dataJSON, "built")

\* the suspended call f resumes: its fetch failed, or answered one of bodies
LoadPositionsResumes(f, bodies) ==
  /\ notice = ""
  /\ BagIn(f, inflight)
  /\ inflight' = DelFetch(f)
  /\ \/ LoadFailed(f)
     \/ \E data \in bodies : LoadSucceeded(f, data)
  /\ Continue(f)
  /\ UNCHANGED product

LoadPositionsReturns ==
  \E f \in BagToSet(inflight) : LoadPositionsResumes(f, Bodies)

----------------------------------------------------------------------------
(* pollLoop and the DOMContentLoaded handler *)

\* the single-flight guard of the interval callback
TickSkips(loading) == loading

TimerTick ==
  /\ notice = ""
  /\ timerOn
  /\ IF TickSkips(isLoading)
     THEN UNCHANGED <<isLoading, inflight>>
     ELSE /\ isLoading' = TRUE
          /\ inflight' = AddFetch(Fetch("tick", 0, product))
  /\ UNCHANGED <<pageVars, selVars, timerOn, hedgeVars, lastFetch, toggles>>

\* a change handler that starts no fetch while the guard is held
ProductChangeGuarded ==
  /\ notice = ""
  /\ BagCardinality(inflight) < MaxInFlight
  /\ \E p \in Products \ {product} :
       /\ product' = p
       /\ container' = [kind |-> "loading", product |-> p, json |-> ""]
       /\ inflight' = IF isLoading THEN inflight
                                   ELSE AddFetch(Fetch("change", 0, p))
  /\ prevDataJSON' = Null
  /\ cells' = NoCells
  /\ scrollLeft' = 0
  /\ selectedCells' = Detach(selectedCells)
  /\ UNCHANGED <<panel, isLoading, timerOn, hedgeVars, lastFetch, toggles>>

\* the change listener of #product-select
ProductChange ==
  /\ notice = ""
  /\ BagCardinality(inflight) < MaxInFlight
  /\ \E p \in Products \ {product} :
       /\ product' = p
       /\ container' = [kind |-> "loading", product |-> p, json |-> ""]
       /\ inflight' = AddFetch(Fetch("change", 0, p))
  /\ prevDataJSON' = Null
  /\ cells' = NoCells
  /\ scrollLeft' = 0
  /\ selectedCells' = Detach(selectedCells)
  /\ UNCHANGED <<panel, isLoading, timerOn, hedgeVars, lastFetch, toggles>>

\* the operator scrolls the grid sideways
Scroll ==
  /\ notice = ""
  /\ container.kind = "grid"
  /\ \E x \in ScrollOffsets \ {scrollLeft} : scrollLeft' = x
  /\ UNCHANGED <<product, prevDataJSON, container, selVars, pollVars,
                 hedgeVars, lastFetch, toggles>>

----------------------------------------------------------------------------
(* applyHedgeFromSelection *)

\* a payload that lists the entries last first
BuildPayloadReversed(sel, prod) ==
  [product |-> prod,
   lis_structure_names |-> [i \in 1..Len(sel) |-> sel[Len(sel) + 1 - i].structure],
   lis_starting_contracts |-> [i \in 1..Len(sel) |-> sel[Len(sel) + 1 - i].contract],
   lis_num_lots |-> [i \in 1..Len(sel) |-> ParseInt(sel[Len(sel) + 1 - i].value)]]

\* const payload of applyHedgeFromSelection
BuildPayload(sel, prod) ==
  [product |-> prod,
   lis_structure_names |-> [i \in 1..Len(sel) |-> sel[i].structure],
   lis_starting_contracts |-> [i \in 1..Len(sel) |-> sel[i].contract],
   lis_num_lots |-> [i \in 1..Len(sel) |-> ParseInt(sel[i].value)]]

ImplementRequest(payload) == [url |-> "/api/implement_hedge", body |-> payload]
CreateRequest(name, pattern) ==
  [url |-> "/api/create_strategy",
   body |-> [structure_name |-> name, pattern |-> pattern]]

\* eval(userInput) and Array.isArray
IsArrayText(text) == text = "[1,-1]"
EvalPattern(text) == IF text = "[1,-1]" THEN <<1, -1>> ELSE <<>>

\* what one continuation of the call comes to: the call suspended at its
\* next await (end = ""), an Error thrown into the catch block, or the
\* success path
Goes(op) == [op |-> op, end |-> "", msg |-> ""]
Throws(op, msg) == [op |-> op, end |-> "fail", msg |-> msg]
Succeeds(op) == [op |-> op, end |-> "success", msg |-> ""]

\* error || default
OrDefault(error, default) == IF error # "" THEN error ELSE default

\* a retry that builds its body from the store as it is at the retry
RetryBodyFromStore(op, sel) == BuildPayload(sel, op.payload.product)

\* the body of the retry: JSON.stringify(payload) of the same const payload
RetryBody(op, sel) == op.payload

SendRetry(op, sel) ==
  Goes([op EXCEPT !.pc = "retry",
                  !.request = ImplementRequest(RetryBody(op, sel)),
                  !.sends = @ + 1])

SendCreate(op, k, name, pattern) ==
  Goes([op EXCEPT !.pc = "create", !.k = k,
                  !.request = CreateRequest(name, pattern),
                  !.requested = Append(@, name)])

\* a loop that takes a cancelled prompt for an empty pattern and goes on
AskPatternIgnoringCancel(op, k, answer) ==
  IF answer.cancelled
  THEN SendCreate([op EXCEPT !.cancelled = TRUE], k, op.missing[k], <<>>)
  ELSE IF ~IsArrayText(answer.text)
  THEN Throws([op EXCEPT !.k = k],
              "Invalid pattern provided for " \o op.missing[k])
  ELSE SendCreate(op, k, op.missing[k], EvalPattern(answer.text))

\* one iteration of the loop over data.missing, up to its await
AskPattern(op, k, answer) ==
  IF answer.cancelled
  THEN Throws([op EXCEPT !.k = k, !.cancelled = TRUE],
              "Operation cancelled by user")
  ELSE IF ~IsArrayText(answer.text)
  THEN Throws([op EXCEPT !.k = k],
              "Invalid pattern provided for " \o op.missing[k])
  ELSE SendCreate(op, k, op.missing[k], EvalPattern(answer.text))

\* the loop from name k on, then the retry
ResolveFrom(op, k, answer, sel) ==
  IF k <= Len(op.missing) THEN AskPattern(op, k, answer) ELSE SendRetry(op, sel)

\* the prompt for a name of the missing_hedged_pattern branch
AskName(op, pattern, answer) ==
  IF answer.cancelled
  THEN Throws([op EXCEPT !.k = 1, !.cancelled = TRUE],
              "Operation cancelled by user")
  ELSE SendCreate([op EXCEPT !.missing = <<answer.text>>], 1, answer.text, pattern)

\* after the first implement_hedge
OnSubmitReply(op, r, answer, sel) ==
  IF r.status = "transport" THEN Throws(op, r.error)
  ELSE IF r.status = "ok" THEN Succeeds(op)
  ELSE IF r.error = "missing_strategies"
  THEN ResolveFrom([op EXCEPT !.kind = "missing_strategies",
                              !.missing = r.missing], 1, answer, sel)
  ELSE IF r.error = "missing_hedged_pattern"
  THEN AskName([op EXCEPT !.kind = "missing_hedged_pattern"], r.pattern, answer)
  ELSE Throws(op, OrDefault(r.error, "Implement hedge failed"))

\* a loop that goes on to the next name after a rejected create_strategy
OnCreateReplyGoesOn(op, r, answer, sel) ==
  IF r.status = "transport" THEN Throws(op, r.error)
  ELSE LET op2 == IF r.status = "ok" THEN [op EXCEPT !.creates = @ + 1] ELSE op
       IN IF op.kind = "missing_strategies"
          THEN ResolveFrom(op2, op.k + 1, answer, sel)
          ELSE SendRetry(op2, sel)

\* after a create_strategy
OnCreateReply(op, r, answer, sel) ==
  IF r.status = "transport" THEN Throws(op, r.error)
  ELSE IF r.status # "ok"
  THEN Throws(op, OrDefault(r.error,
                            "Failed to create strategy " \o op.missing[op.k]))
  ELSE LET op2 == [op EXCEPT !.creates = @ + 1]
       IN IF op.kind = "missing_strategies"
          THEN ResolveFrom(op2, op.k + 1, answer, sel)
          ELSE SendRetry(op2, sel)

\* after the retry
OnRetryReply(op, r) ==
  IF r.status = "transport" THEN Throws(op, r.error)
  ELSE IF r.status # "ok"
  THEN Throws(op, OrDefault(r.error, "Implement hedge failed on retry"))
  ELSE Succeeds(op)

\* apply.onclick; the button exists only while the panel shows a selection
ApplyClick ==
  /\ notice = ""
  /\ panel.apply # ""
  /\ \E i \in OpIds :
       /\ ops[i].pc = "idle"
       /\ \A j \in OpIds : j < i => ops[j].pc # "idle"
       /\ IF Len(selectedCells) = 0
          THEN UNCHANGED ops
          ELSE LET payload == BuildPayload(selectedCells, product)
               IN ops' = [ops EXCEPT ![i] =
                            [Idle EXCEPT !.pc = "submit", !.payload = payload,
                                         !.request = ImplementRequest(payload),
                                         !.sends = 1, !.first = payload,
                                         !.selAtSubmit = selectedCells]]
  /\ UNCHANGED <<pageVars, selVars, pollVars, notice, lastFetch, toggles>>

\* the success path up to its await: clearSelection(); await loadPositions()
SuccessPath(d) == ClearSelection(d)

\* the effect of one continuation of call i on the page
Settle(i, o) ==
  IF o.end = "success"
     THEN LET d == SuccessPath(Dom(selectedCells, cells, panel))
          IN /\ selectedCells' = d.sel
             /\ cells' = d.cells
             /\ panel' = d.panel
             /\ toggles' = Restart(d.sel)
             /\ inflight' = AddFetch(Fetch("hedge", i, product))
             /\ ops' = [Touch(ops) EXCEPT ![i] =
                          [Idle EXCEPT !.pc = "refresh", !.sends = o.op.sends]]
             /\ UNCHANGED <<pageVars, isLoading, timerOn, notice, lastFetch>>
     ELSE IF o.end = "fail"
     THEN \* catch: alert('Error: ' + err.message)
          /\ ops' = [ops EXCEPT ![i] =
                       [o.op EXCEPT !.pc = "alert", !.request = NoRequest]]
          /\ notice' = "Error: " \o o.msg
          /\ UNCHANGED <<pageVars, selVars, pollVars, lastFetch, toggles>>
     ELSE /\ ops' = [ops EXCEPT ![i] = o.op]
          /\ UNCHANGED <<pageVars, selVars, pollVars, notice, lastFetch, toggles>>

ImplementHedgeReplies ==
  /\ notice = ""
  /\ \E i \in OpIds, r \in HedgeReplies, answer \in PromptAnswers :
       /\ ops[i].pc = "submit"
       /\ Settle(i, OnSubmitReply(ops[i], r, answer, selectedCells))

CreateStrategyReplies ==
  /\ notice = ""
  /\ \E i \in OpIds, r \in CreateReplies, answer \in PromptAnswers :
       /\ ops[i].pc = "create"
       /\ Settle(i, OnCreateReply(ops[i], r, answer, selectedCells))

RetryReplies ==
  /\ notice = ""
  /\ \E i \in OpIds, r \in HedgeReplies :
       /\ ops[i].pc = "retry"
       /\ Settle(i, OnRetryReply(ops[i], r))

\* alert() blocks the page until the operator dismisses it: no handler and
\* no continuation runs while it is open, and the call returns after it.
\* The console line of the success path is kept in notice the same way;
\* reading it changes nothing else.
NoticeRead ==
  /\ notice # ""
  /\ notice' = ""
  /\ ops' = [i \in OpIds |->
               IF ops[i].pc \in {"alert", "logged"} THEN Idle ELSE ops[i]]
  /\ UNCHANGED <<pageVars, selVars, pollVars, lastFetch, toggles>>

----------------------------------------------------------------------------
(* The page after DOMContentLoaded: pollLoop is at its first loadPositions *)

Init ==
  /\ product = "CL"
  /\ prevDataJSON = Undefined
  /\ container = [kind |-> "blank", product |-> "", json |-> ""]
  /\ scrollLeft = 0
  /\ cells = NoCells
  /\ selectedCells = <<>>
  /\ panel = NoPanel
  /\ isLoading = FALSE
  /\ timerOn = FALSE
  /\ inflight = SetToBag({Fetch("init", 0, "CL")})
  /\ ops = [i \in OpIds |-> Idle]
  /\ notice = ""
  /\ lastFetch = [origin |-> "none", json |-> "", did |-> "none"]
  /\ toggles = FreshToggles

Next ==
  \/ LoadPositionsReturns
  \/ TimerTick
  \/ ProductChange
  \/ Scroll
  \/ CellClick
  \/ InputEdit
  \/ RemoveClick
  \/ ApplyClick
  \/ ImplementHedgeReplies
  \/ CreateStrategyReplies
  \/ RetryReplies
  \/ NoticeRead

Spec == Init /\ [][Next]_vars

\* the operator waits for a running call to finish before pressing apply again
ApplyClickPatient ==
  /\ \A i \in OpIds : ops[i].pc = "idle"
  /\ ApplyClick

\* the hedge protocol with a patient operator, under polling
NextHedge ==
  \/ LoadPositionsReturns
  \/ TimerTick
  \/ CellClick
  \/ ApplyClickPatient
  \/ ImplementHedgeReplies
  \/ CreateStrategyReplies
  \/ RetryReplies
  \/ NoticeRead

SpecHedge == Init /\ [][NextHedge]_vars

\* an operator who may press apply at any time, up to the first reply of
\* each call and within one poll interval
NextReentry ==
  \/ LoadPositionsReturns
  \/ CellClick
  \/ ApplyClick
  \/ ImplementHedgeReplies
  \/ NoticeRead

SpecReentry == Init /\ [][NextReentry]_vars

\* the grid, its polling and the selection, with no hedge submitted
NextGrid ==
  \/ LoadPositionsReturns
  \/ TimerTick
  \/ ProductChange
  \/ Scroll
  \/ CellClick
  \/ InputEdit
  \/ RemoveClick

SpecGrid == Init /\ [][NextGrid]_vars

\* clicks on a grid of three contracts, under polling
LoadWideReturns ==
  \E f \in BagToSet(inflight) : LoadPositionsResumes(f, {DataWide})

NextClick ==
  \/ LoadWideReturns
  \/ TimerTick
  \/ CellClick

SpecClick == Init /\ [][NextClick]_vars

\* polling and product changes alone.  The interval timer keeps firing, and
\* every request is answered or fails in the end.
NextPoll ==
  \/ LoadPositionsReturns
  \/ TimerTick
  \/ ProductChange

PageFetches ==
  { Fetch(origin, 0, p) : origin \in {"init", "tick", "change"}, p \in Products }

SpecPoll ==
  /\ Init
  /\ [][NextPoll]_vars
  /\ WF_vars(TimerTick)
  /\ \A f \in PageFetches : WF_vars(LoadPositionsResumes(f, Bodies))

\* a patient operator who edits lots in the panel before submitting, up to
\* the first reply of each call and within one poll interval
NextSubmit ==
  \/ LoadPositionsReturns
  \/ CellClick
  \/ InputEdit
  \/ ApplyClickPatient
  \/ ImplementHedgeReplies
  \/ NoticeRead

SpecSubmit == Init /\ [][NextSubmit]_vars

\* an operator who changes the product with a selection in the panel, up to
\* the submission and within one poll interval
NextLabel ==
  \/ LoadPositionsReturns
  \/ ProductChange
  \/ CellClick
  \/ ApplyClickPatient

SpecLabel == Init /\ [][NextLabel]_vars

----------------------------------------------------------------------------
(* Properties *)

\* C1: at most one loadPositions call is in flight at any time.
C1_AtMostOneFetch == BagCardinality(inflight) <= 1

\* C2: the refresh after a successful hedge re-renders the grid even when
\* the fetched fingerprint equals the stored one: the loadPositions call of
\* the success path never takes the fingerprint short-circuit.
C2_HedgeRefreshRerenders ==
  lastFetch.origin = "hedge" => lastFetch.did # "skipped"

\* C3: a call sends implement_hedge at most twice; the second send happens
\* only in a missing_strategies or missing_hedged_pattern recovery in which
\* every name got a create_strategy request answered ok, and carries the
\* body of the first send; after the retry the call sends nothing more.
C3_RetryOnce ==
  [][\A i \in OpIds :
       /\ ops'[i].sends <= 2
       /\ ops'[i].pc = "retry" =>
            /\ ops'[i].sends = 2
            /\ ops'[i].kind \in {"missing_strategies", "missing_hedged_pattern"}
            /\ ops'[i].requested = ops'[i].missing
            /\ ops'[i].creates = Len(ops'[i].missing)
            /\ ops'[i].request = ImplementRequest(ops'[i].first)
       /\ ops'[i].sends = 2 => ops'[i].pc \in {"retry", "refresh", "logged", "alert"}
       /\ ops[i].pc = "retry" =>
            /\ ops'[i].pc \in {"retry", "refresh", "alert"}
            /\ ops'[i].pc # "retry" => ops'[i].request = NoRequest
  ]_vars

C3_Witness ==
  \E i \in OpIds :
    /\ ops[i].pc = "alert"
    /\ ops[i].sends = 2
    /\ ops[i].creates = 2
    /\ notice = "Error: missing_strategies"

\* C4: no second applyHedgeFromSelection call starts while one is
\* suspended at a request or at its refresh.
C4_OneSequenceAtATime ==
  Cardinality({ i \in OpIds : Suspended(ops[i]) }) <= 1

\* the entries of a store without their element references
StoreView(sel) ==
  [i \in 1..Len(sel) |-> [key |-> sel[i].key, structure |-> sel[i].structure,
                          contract |-> sel[i].contract, value |-> sel[i].value]]

\* C5: when a call ends in its catch block and neither the operator nor
\* another call changed the store meanwhile, the store equals the store at
\* submission.
C5_FailureKeepsSelection ==
  \A i \in OpIds :
    ops[i].pc = "alert" /\ ~ops[i].touched =>
      StoreView(selectedCells) = StoreView(ops[i].selAtSubmit)

NoCellSelected == \A id \in DOMAIN cells : ~cells[id].selected

\* C6: from the success of a call until it returns, unless the operator
\* selects again, the store is empty and no displayed cell is selected.
C6_SuccessClearsSelection ==
  \A i \in OpIds :
    ops[i].pc \in {"refresh", "logged"} /\ ~ops[i].touched =>
      selectedCells = <<>> /\ NoCellSelected

C6_Witness ==
  \E i \in OpIds :
    /\ ops[i].pc = "logged"
    /\ ops[i].sends = 2
    /\ ~ops[i].touched
    /\ lastFetch.did = "skipped"
    /\ DOMAIN cells # {}

\* C7: a cancelled prompt for the k-th name ends the call in its alert
\* with the cancellation message; create_strategy was requested for the
\* names before k only, all of them answered ok, and implement_hedge was
\* sent once.
C7_CancelStops ==
  \A i \in OpIds :
    ops[i].cancelled =>
      /\ ops[i].pc = "alert"
      /\ notice = "Error: Operation cancelled by user"
      /\ ops[i].request = NoRequest
      /\ ops[i].sends = 1
      /\ ops[i].requested = SubSeq(ops[i].missing, 1, ops[i].k - 1)
      /\ ops[i].creates = ops[i].k - 1

C7_Witness ==
  \E i \in OpIds :
    /\ ops[i].cancelled
    /\ ops[i].kind = "missing_strategies"
    /\ ops[i].k = 2
    /\ ops[i].creates = 1

\* C8: a loadPositions call that fetches a snapshot whose fingerprint equals
\* the stored one changes neither the grid, the scroll offset, the store,
\* the panel nor the stored fingerprint.
C8_SameFingerprintNoChange ==
  [][BagCardinality(inflight') < BagCardinality(inflight)
       /\ lastFetch'.json = prevDataJSON
     => UNCHANGED <<prevDataJSON, container, scrollLeft, cells,
                    selectedCells, panel>>]_vars

C8_Witness ==
  /\ lastFetch.did = "skipped"
  /\ scrollLeft # 0
  /\ \E i \in 1..Len(selectedCells) : selectedCells[i].value = "07"

NoDuplicateKeys ==
  \A i, j \in 1..Len(selectedCells) :
    selectedCells[i].key = selectedCells[j].key => i = j

\* C9: no two entries share a key, and after modified clicks only, from an
\* empty store, the store holds the cells clicked an odd number of times in
\* the order of their latest selection.
C9_ToggleParity ==
  /\ NoDuplicateKeys
  /\ toggles.valid =>
       /\ Len(selectedCells) = Len(toggles.latest)
       /\ \A i \in 1..Len(selectedCells) :
            /\ selectedCells[i].key = KeyOf(toggles.latest[i][1], toggles.latest[i][2])
            /\ selectedCells[i].element = toggles.latest[i]
       /\ { toggles.latest[i] : i \in 1..Len(toggles.latest) } = toggles.odd

C9_Witness ==
  /\ toggles.valid
  /\ Len(selectedCells) = 2
  /\ selectedCells[1].contract = "G"
  /\ selectedCells[2].contract = "F"

\* C10: no entry of the store is a cell of the row "Total", and no cell of
\* that row is selected or has a click listener.
C10_TotalNeverSelected ==
  /\ \A i \in 1..Len(selectedCells) : selectedCells[i].structure # "Total"
  /\ \A id \in DOMAIN cells :
       id[1] = "Total" => ~cells[id].selected /\ ~cells[id].handler

C10_Witness ==
  /\ \E id \in DOMAIN cells : id[1] = "Total"
  /\ Len(selectedCells) = 2

\* C11: a click without modifier key on a cell that has a listener and is
\* not selected leaves the store with exactly one entry, that cell, whatever
\* the store held before, and leaves no other displayed cell selected.
C11_PlainClickSelectsOne ==
  \A id \in DOMAIN cells :
    cells[id].handler /\ ~cells[id].selected =>
      LET d == ClickHandler(Dom(selectedCells, cells, panel), id, FALSE)
      IN /\ Len(d.sel) = 1
         /\ d.sel[1].key = KeyOf(id[1], id[2])
         /\ d.sel[1].element = id
         /\ \A c \in DOMAIN d.cells : d.cells[c].selected <=> c = id

\* a plain click has replaced a selection: another cell is now the only one
C11_Witness ==
  /\ ~toggles.valid
  /\ Len(selectedCells) = 1
  /\ selectedCells[1].contract = "H"
  /\ \A c \in DOMAIN cells : cells[c].selected <=> c = <<"Fly", "H">>

TickInFlight == \E f \in BagToSet(inflight) : f.origin = "tick"

\* C12: the single-flight guard is held exactly while the fetch of a tick is
\* in flight, so it is released when that fetch finishes, failed or not; a
\* guard that is held is released in the end, and whenever the last finished
\* fetch failed and the guard is free, a later tick starts a fetch.
C12_GuardReleasedPollingGoesOn ==
  /\ [](isLoading <=> TickInFlight)
  /\ isLoading ~> ~isLoading
  /\ (lastFetch.did = "error" /\ ~isLoading) ~> isLoading

\* a tick has started a fetch after the fetch of a tick failed
C12_Witness ==
  /\ lastFetch.origin = "tick"
  /\ lastFetch.did = "error"
  /\ isLoading
  /\ container.kind = "error"

\* setInterval is called once, by pollLoop after its first loadPositions
Timers == IF timerOn THEN 1 ELSE 0

\* what a change of the product selector does to the page, the timer aside
ChangeEffect ==
  /\ prevDataJSON' = Null
  /\ container' = [kind |-> "loading", product |-> product', json |-> ""]
  /\ inflight' = inflight (+) SetToBag({Fetch("change", 0, product')})
  /\ isLoading' = isLoading

\* C13 as stated: a product change sets the stored fingerprint to none,
\* shows the loading placeholder and starts one fetch for the new product
\* whatever the guard; it leaves the timers alone, and exactly one interval
\* timer exists after it.
C13_ExactlyOneTimer ==
  [][product' # product => ChangeEffect /\ Timers' = Timers /\ Timers' = 1]_vars

\* C13 amended: as above, but the number of interval timers after the
\* change is the number before it, which is none until the first
\* loadPositions call of pollLoop has returned and one from then on.
C13_TimersUntouched ==
  [][product' # product =>
       /\ ChangeEffect
       /\ Timers' = Timers
       /\ Timers' = IF \E f \in BagToSet(inflight) : f.origin = "init"
                    THEN 0 ELSE 1]_vars

\* the product was changed while the fetch of a tick held the guard
C13_Witness ==
  /\ container.kind = "loading"
  /\ prevDataJSON = Null
  /\ isLoading
  /\ Timers = 1
  /\ BagIn(Fetch("change", 0, product), inflight)
  /\ TickInFlight

\* C14: in a missing_strategies recovery the names a create_strategy request
\* was sent for are a prefix of the missing list, in its order; the request
\* for the k-th name is sent when the k-1 before it were answered ok; the
\* retry is sent only when every name was answered ok; and a call that ended
\* in its catch block on the k-th name has requested no later name, has no
\* request pending and has sent implement_hedge once.
C14_NamesInOrder ==
  \A i \in OpIds :
    ops[i].kind = "missing_strategies" =>
      LET op == ops[i]
          n == Len(op.requested)
      IN /\ n <= Len(op.missing)
         /\ op.requested = SubSeq(op.missing, 1, n)
         /\ op.creates <= n /\ n <= op.creates + 1
         /\ op.pc = "create" =>
              /\ n = op.k
              /\ op.creates = op.k - 1
              /\ op.request.url = "/api/create_strategy"
              /\ op.request.body.structure_name = op.missing[op.k]
              /\ op.sends = 1
         /\ op.sends = 2 => op.creates = Len(op.missing)
         /\ op.pc = "alert" /\ op.sends = 1 =>
              /\ op.k >= 1
              /\ op.creates = op.k - 1
              /\ n <= op.k
              /\ op.request = NoRequest

\* the create_strategy for the second of two names was rejected
C14_Witness ==
  \E i \in OpIds :
    /\ ops[i].kind = "missing_strategies"
    /\ ops[i].pc = "alert"
    /\ Len(ops[i].missing) = 2
    /\ ops[i].requested = ops[i].missing
    /\ ops[i].creates = 1
    /\ ops[i].sends = 1
    /\ notice = "Error: rejected"

\* C15: the implement_hedge request a call sends at submission lists one
\* name, one contract and one number of lots per entry of the store as it
\* was at submission, the i-th of each taken from the i-th entry; the store
\* was not empty, and the apply button exists only over a non-empty store.
C15_PayloadAligned ==
  /\ panel.apply # "" => Len(selectedCells) > 0
  /\ \A i \in OpIds :
       ops[i].pc = "submit" =>
         LET b == ops[i].request.body
             sel == ops[i].selAtSubmit
         IN /\ Len(sel) > 0
            /\ ops[i].request.url = "/api/implement_hedge"
            /\ Len(b.lis_structure_names) = Len(sel)
            /\ Len(b.lis_starting_contracts) = Len(sel)
            /\ Len(b.lis_num_lots) = Len(sel)
            /\ \A j \in 1..Len(sel) :
                 /\ b.lis_structure_names[j] = sel[j].structure
                 /\ b.lis_starting_contracts[j] = sel[j].contract
                 /\ b.lis_num_lots[j] = ParseInt(sel[j].value)

\* two cells selected last contract first, one of them edited, submitted
C15_Witness ==
  \E i \in OpIds :
    /\ ops[i].pc = "submit"
    /\ ops[i].request.body.lis_starting_contracts = <<"G", "F">>
    /\ ops[i].request.body.lis_num_lots = <<7, 1>>

\* the fingerprint of a snapshot without contracts and rows
EmptyJSON == Stringify(<<>>, <<>>)

\* a loadPositions call returns an empty snapshot that is not the stored one
EmptySnapshotArrives ==
  /\ BagCardinality(inflight') < BagCardinality(inflight)
  /\ lastFetch'.json = EmptyJSON
  /\ prevDataJSON # EmptyJSON

\* C16 as stated: after an empty snapshot rendered the "no positions"
\* placeholder the stored fingerprint is none.
C16_EmptyClearsFingerprint ==
  [][EmptySnapshotArrives =>
       /\ container'.kind = "nopositions"
       /\ prevDataJSON' \in {Null, Undefined}]_vars

\* C16 amended: after an empty snapshot rendered the "no positions"
\* placeholder the stored fingerprint is the fingerprint of that empty
\* snapshot.
C16_EmptyStoresFingerprint ==
  [][EmptySnapshotArrives =>
       /\ container'.kind = "nopositions"
       /\ prevDataJSON' = EmptyJSON]_vars

\* the placeholder is shown and a second empty snapshot was skipped
C16_Witness ==
  /\ container.kind = "nopositions"
  /\ prevDataJSON = EmptyJSON
  /\ lastFetch.did = "skipped"

\* the grid region shows the rendering of the snapshot with fingerprint json
Shows(json) ==
  IF json = EmptyJSON
  THEN container.kind = "nopositions"
  ELSE container.kind = "grid" /\ container.json = json

\* C17: when the last finished fetch succeeded and the stored fingerprint is
\* not none, the grid region shows the rendering of the snapshot with the
\* stored fingerprint; so the first successful fetch after a failed one puts
\* the grid back, also when its snapshot is the one rendered before.
C17_FingerprintIsShown ==
  (lastFetch.did \in {"skipped", "placeholder", "built"}
     /\ prevDataJSON \notin {Null, Undefined})
  => Shows(prevDataJSON)

\* C18: every entry of the store references a cell of the displayed grid,
\* and the panel lists nothing else.
C18_EntriesAreDisplayed ==
  /\ \A i \in 1..Len(selectedCells) :
       /\ selectedCells[i].connected
       /\ selectedCells[i].element \in DOMAIN cells
  /\ Len(panel.items) = Len(selectedCells)

\* C19: once no loadPositions call is in flight, a displayed grid or
\* placeholder is the one of the product now selected.
C19_GridOfCurrentProduct ==
  (inflight = EmptyBag /\ container.kind \in {"grid", "nopositions"})
  => container.product = product

\* C20: the implement_hedge request a press of the apply button sends names
\* the product the label of the button shows at the press.
C20_ProductOfLabel ==
  [][\A i \in OpIds :
       ops[i].pc = "idle" /\ ops'[i].pc = "submit" =>
         panel.apply = "Apply Hedge (" \o ops'[i].request.body.product \o ")"
  ]_vars

====
